---- MODULE Spec2Model ----
(***************************************************************************)
(* A model of the token-api gateway: the parameter normalizers of utils.ts *)
(* (formatAddress, parseLimit, parseBlockId, parseTimestamp), the error    *)
(* formatter APIErrorResponse, and the request handlers of index.ts        *)
(* (/head, /health, the usage endpoints, notFound) together with the       *)
(* single-query transfers route.                                           *)
(*                                                                         *)
(* JavaScript values are records [t, s, n, a]: t is the type tag, s a      *)
(* sequence of one-character strings (the text of a string), n an integer, *)
(* a the elements of an array. Every value has all four fields so that any *)
(* two values can be compared.                                             *)
(***************************************************************************)
EXTENDS Integers, Sequences, FiniteSets, TLC

VARIABLES
    config,     \* the process configuration read by parseLimit (config.maxLimit)
    call,       \* normalizers: the function called and its arguments
    ret,        \* normalizers: what the call returned (or that it is pending)
    phase,      \* gateway: "idle", "query" (awaiting the database), "done"
    nreq,       \* gateway: the number of requests received so far
    req,        \* gateway: ctx.req of the request being handled
    locals,     \* gateway: the local variables of the handler of req
    dispatched, \* gateway: the calls of makeUsageQuery made for req
    settled,    \* gateway: what the call awaited by req's handler settled with
    trace,      \* gateway: what the handling of req did, in program order
    response,   \* gateway: what the handler returned for req
    requests,   \* prometheus.requests: pathname -> count
    request_error, \* prometheus.request_error: <<pathname, status>> -> count
    log         \* logger.error: the api_error records logged, in order

vars ==
    <<config, call, ret, phase, nreq, req, locals, dispatched, settled, trace, response,
      requests, request_error, log>>
gatewayVars ==
    <<phase, nreq, req, locals, dispatched, settled, trace, response, requests,
      request_error, log>>

(***************************************************************************)
(* Bounds of the model.                                                    *)
(***************************************************************************)
MaxStrLen == 4        \* longest address / block id text
MaxLimitStrLen == 3   \* longest text of a limit
MaxLimitNum == 7      \* largest numeric limit or default tried
MaxConfigLimit == 3   \* largest config.maxLimit tried
MaxDigits == 14       \* longest decimal numeral of a timestamp
MaxLeadingZeros == 2  \* most zeros put in front of a digit string
MaxRequests == 2      \* requests handled in one run

(***************************************************************************)
(* JavaScript values.                                                      *)
(***************************************************************************)
JsUndefined == [t |-> "undefined", s |-> <<>>, n |-> 0, a |-> <<>>]
JsNull == [t |-> "null", s |-> <<>>, n |-> 0, a |-> <<>>]
JsNaN == [t |-> "NaN", s |-> <<>>, n |-> 0, a |-> <<>>]
JsStr(s) == [t |-> "string", s |-> s, n |-> 0, a |-> <<>>]
JsNum(n) == [t |-> "number", s |-> <<>>, n |-> n, a |-> <<>>]
\* A number beyond 32-bit integers (a timestamp): its decimal numeral, digits
\* without leading zeros, n = -1 for a negative number and 1 otherwise.
JsNumeral(neg, digits) == [t |-> "numeral", s |-> digits, n |-> IF neg THEN -1 ELSE 1,
                           a |-> <<>>]
\* A thrown Error with the given message.
JsThrow(msg) == [t |-> "throw", s |-> <<msg>>, n |-> 0, a |-> <<>>]
\* Math.floor(Number(new Date(text)) / 1000), left uninterpreted.
JsDateSeconds(text) == [t |-> "dateSeconds", s |-> text, n |-> 0, a |-> <<>>]
\* An array of strings, each element the text of a string.
JsArray(items) == [t |-> "array", s |-> <<>>, n |-> 0, a |-> items]
Pending == [t |-> "pending", s |-> <<>>, n |-> 0, a |-> <<>>]

\* typeof x
TypeOf(x) ==
    CASE x.t \in {"number", "NaN", "numeral"} -> "number"
      [] x.t = "string" -> "string"
      [] x.t = "undefined" -> "undefined"
      [] OTHER -> "object"

\* The truthiness of x: what `if (x)` and `!x` test.
Truthy(x) ==
    CASE x.t = "string" -> x.s # <<>>
      [] x.t = "number" -> x.n # 0
      [] x.t = "numeral" -> x.s # <<"0">>
      [] x.t = "array" -> TRUE
      [] OTHER -> FALSE

(***************************************************************************)
(* Strings.                                                                *)
(***************************************************************************)
Strings(alphabet, maxLen) == UNION {[1..k -> alphabet] : k \in 0..maxLen}

Min(S) == CHOOSE x \in S : \A y \in S : x <= y

\* s.startsWith(p)
StartsWith(s, p) == Len(s) >= Len(p) /\ SubSeq(s, 1, Len(p)) = p

\* s.endsWith(p)
EndsWith(s, p) == Len(s) >= Len(p) /\ SubSeq(s, Len(s) - Len(p) + 1, Len(s)) = p

\* s.slice(k), s.substring(k) for 0 <= k
Slice(s, k) == SubSeq(s, k + 1, Len(s))

\* s.indexOf(p), counted from 1; 0 when p does not occur
IndexOf(s, p) ==
    LET at == {i \in 1..(Len(s) - Len(p) + 1) : SubSeq(s, i, i + Len(p) - 1) = p}
    IN  IF at = {} THEN 0 ELSE Min(at)

\* s.replace(p, r) with a string pattern: the first occurrence only
Replace(s, p, r) ==
    LET i == IndexOf(s, p)
    IN  IF i = 0 THEN s
        ELSE SubSeq(s, 1, i - 1) \o r \o SubSeq(s, i + Len(p), Len(s))

\* s.toLowerCase(), over the letters the model uses
LowerChar(c) == CASE c = "X" -> "x" [] c = "A" -> "a" [] c = "Z" -> "z" [] OTHER -> c
ToLowerCase(s) == [i \in 1..Len(s) |-> LowerChar(s[i])]

Marker == <<"0", "x">>

(***************************************************************************)
(* Decimal digits.                                                         *)
(***************************************************************************)
DigitChars == <<"0", "1", "2", "3", "4", "5", "6", "7", "8", "9">>
Digits == {DigitChars[i] : i \in 1..10}
DigitValue(c) == (CHOOSE i \in 1..10 : DigitChars[i] = c) - 1

\* /^[0-9]+$/.test(s)
IsDigits(s) == s # <<>> /\ \A i \in 1..Len(s) : s[i] \in Digits

\* The longest prefix of s made of digits.
DigitPrefix(s) ==
    LET stop == {i \in 1..Len(s) : s[i] \notin Digits}
    IN  IF stop = {} THEN s ELSE SubSeq(s, 1, Min(stop) - 1)

RECURSIVE DecimalValue(_)
DecimalValue(ds) ==
    IF ds = <<>> THEN 0
    ELSE 10 * DecimalValue(SubSeq(ds, 1, Len(ds) - 1)) + DigitValue(ds[Len(ds)])

\* ds without its leading zeros; "0" when nothing else is left.
RECURSIVE StripZeros(_)
StripZeros(ds) ==
    IF Len(ds) > 1 /\ ds[1] = "0" THEN StripZeros(Tail(ds)) ELSE ds

\* The numeral of ds + 1.
RECURSIVE Increment(_)
Increment(ds) ==
    IF ds = <<>> THEN <<"1">>
    ELSE LET last == ds[Len(ds)]
             front == SubSeq(ds, 1, Len(ds) - 1)
         IN  IF last = "9" THEN Increment(front) \o <<"0">>
             ELSE front \o <<DigitChars[DigitValue(last) + 2]>>

(***************************************************************************)
(* The normalizers of utils.ts.                                            *)
(***************************************************************************)

\* formatAddress with String.replace in place of startsWith/slice.
formatAddressReplacing(address) ==
    IF ~Truthy(address) THEN JsUndefined
    ELSE JsStr(Replace(address.s, Marker, <<>>))

formatAddress(address) ==
    IF ~Truthy(address) THEN JsUndefined
    ELSE IF StartsWith(address.s, Marker) THEN JsStr(Slice(address.s, 2))
    ELSE address

parseBlockId(block_id) ==
    IF Truthy(block_id) THEN JsStr(Replace(block_id.s, Marker, <<>>))
    ELSE JsUndefined

\* parseInt(s) for a text without white space and without a 0x prefix: an
\* optional sign and the digits that follow it; NaN when there is no digit.
parseInt(s) ==
    LET signed == s # <<>> /\ s[1] \in {"-", "+"}
        digits == DigitPrefix(IF signed THEN Tail(s) ELSE s)
    IN  IF digits = <<>> THEN JsNaN
        ELSE IF signed /\ s[1] = "-" THEN JsNum(0 - DecimalValue(digits))
        ELSE JsNum(DecimalValue(digits))

\* value > bound, for a value that may be NaN (every comparison with NaN is false)
GreaterThan(value, bound) == value.t = "number" /\ value.n > bound

parseLimit(limit, defaultLimit) ==
    LET value0 == JsNum(1)
        value1 == IF Truthy(defaultLimit) THEN defaultLimit ELSE value0
        value2 == IF Truthy(limit)
                  THEN IF TypeOf(limit) = "string" THEN parseInt(limit.s)
                       ELSE IF TypeOf(limit) = "number" THEN limit
                       ELSE value1
                  ELSE value1
    IN  IF GreaterThan(value2, config.maxLimit) THEN JsNum(config.maxLimit) ELSE value2

\* parseInt(s) for a text of digits only, as a numeral
parseIntDigits(s) == JsNumeral(FALSE, StripZeros(s))

\* timestamp.toString() of a numeral
NumberToString(x) == (IF x.n < 0 THEN <<"-">> ELSE <<>>) \o x.s

\* Math.floor(x / 1000) of a numeral
FloorDiv1000(x) ==
    LET len == Len(x.s)
        quotient == IF len > 3 THEN SubSeq(x.s, 1, len - 3) ELSE <<"0">>
        exact == len > 3 /\ SubSeq(x.s, len - 2, len) = <<"0", "0", "0">>
    IN  IF x.n > 0 \/ x.s = <<"0">> THEN JsNumeral(FALSE, quotient)
        ELSE IF exact THEN JsNumeral(TRUE, quotient)
        ELSE JsNumeral(TRUE, IF quotient = <<"0">> THEN <<"1">> ELSE Increment(quotient))

\* parseTimestamp of a number
parseTimestampNumber(timestamp) ==
    LET length == Len(NumberToString(timestamp))
    IN  IF length = 10 THEN timestamp
        ELSE IF length = 13 THEN FloorDiv1000(timestamp)
        ELSE JsThrow("Invalid timestamp")

parseTimestamp(timestamp) ==
    IF timestamp.t \notin {"undefined", "null"}
    THEN IF TypeOf(timestamp) = "string"
         THEN IF IsDigits(timestamp.s)
              THEN parseTimestampNumber(parseIntDigits(timestamp.s))
              ELSE JsDateSeconds(IF EndsWith(timestamp.s, <<"Z">>) THEN timestamp.s
                                 ELSE timestamp.s \o <<"Z">>)
         ELSE IF TypeOf(timestamp) = "number" THEN parseTimestampNumber(timestamp)
         ELSE JsUndefined
    ELSE JsUndefined

(***************************************************************************)
(* The normalizers called on their own: the call is drawn in NormInit and  *)
(* one action per function applies it.                                     *)
(***************************************************************************)
AddressAlphabet == {"0", "x", "X", "a"}
LimitAlphabet == {"-", "0", "1", "9", "a"}

AddressInputs ==
    {JsNull, JsUndefined} \cup {JsStr(s) : s \in Strings(AddressAlphabet, MaxStrLen)}

LimitInputs ==
    {JsUndefined, JsNull}
        \cup {JsNum(n) : n \in (0 - 2)..MaxLimitNum}
        \cup {JsStr(s) : s \in Strings(LimitAlphabet, MaxLimitStrLen)}

DefaultLimitInputs == {JsUndefined} \cup {JsNum(n) : n \in (0 - 1)..MaxLimitNum}

\* The numerals tried: a leading digit followed by copies of one digit.
NumeralDigits ==
    {<<"0">>} \cup
    {<<lead>> \o [i \in 1..(len - 1) |-> fill] :
        lead \in {"1", "9"}, fill \in {"0", "9"}, len \in 1..MaxDigits}

DateTexts ==
    {<<"2", "0", "2", "4", "-", "0", "1", "-", "0", "1">>,
     <<"2", "0", "2", "4", "-", "0", "1", "-", "0", "1", "Z">>}

TimestampInputs ==
    {JsUndefined, JsNull}
        \cup ({JsNumeral(neg, d) : neg \in BOOLEAN, d \in NumeralDigits}
                  \ {JsNumeral(TRUE, <<"0">>)})
        \cup {JsStr([i \in 1..z |-> "0"] \o d) : z \in 0..MaxLeadingZeros, d \in NumeralDigits}
        \cup {JsStr(<<"-">> \o d) : d \in NumeralDigits}
        \cup {JsStr(d) : d \in DateTexts}

Calls ==
    {[fn |-> "formatAddress", args |-> <<x>>] : x \in AddressInputs}
        \cup {[fn |-> "parseBlockId", args |-> <<x>>] : x \in AddressInputs}
        \cup {[fn |-> "parseLimit", args |-> <<x, d>>] : x \in LimitInputs, d \in DefaultLimitInputs}
        \cup {[fn |-> "parseTimestamp", args |-> <<x>>] : x \in TimestampInputs}

NoCall == [fn |-> "none", args |-> <<>>]

CallFormatAddress ==
    /\ call.fn = "formatAddress" /\ ret = Pending
    /\ ret' = formatAddress(call.args[1])
    /\ UNCHANGED <<config, call, gatewayVars>>

CallParseBlockId ==
    /\ call.fn = "parseBlockId" /\ ret = Pending
    /\ ret' = parseBlockId(call.args[1])
    /\ UNCHANGED <<config, call, gatewayVars>>

CallParseLimit ==
    /\ call.fn = "parseLimit" /\ ret = Pending
    /\ ret' = parseLimit(call.args[1], call.args[2])
    /\ UNCHANGED <<config, call, gatewayVars>>

CallParseTimestamp ==
    /\ call.fn = "parseTimestamp" /\ ret = Pending
    /\ ret' = parseTimestamp(call.args[1])
    /\ UNCHANGED <<config, call, gatewayVars>>

(***************************************************************************)
(* Schema validation (zod's safeParse) of a parameter set. A parameter set *)
(* is a function from field names to values, JsUndefined for a field that  *)
(* is not there.                                                           *)
(***************************************************************************)
AddressHexLength == 40
HexChars == Digits \cup {"a", "b", "c", "d", "e", "f", "A", "B", "C", "D", "E", "F"}

\* Whether text is a well-formed account identifier, with or without marker.
IsAddress(text) ==
    LET body == IF StartsWith(ToLowerCase(text), Marker) THEN Slice(text, 2) ELSE text
    IN  Len(body) = AddressHexLength /\ \A i \in 1..Len(body) : body[i] \in HexChars

Issue(code, path, message) == [code |-> code, path |-> path, message |-> message]

IndexText(i) == DigitChars[i]

\* The issues of one field of an object schema, in the order zod reports them.
ValidateField(field, value) ==
    IF value.t = "undefined"
    THEN IF field.optional THEN <<>>
         ELSE <<Issue("invalid_type", <<field.name>>, "Required")>>
    ELSE IF field.type = "address"
    THEN IF value.t = "string" /\ IsAddress(value.s) THEN <<>>
         ELSE <<Issue("invalid_string", <<field.name>>, "Invalid")>>
    ELSE IF value.t # "array"
    THEN <<Issue("invalid_type", <<field.name>>, "Expected array, received string")>>
    ELSE LET bad == {i \in 1..Len(value.a) : ~IsDigits(value.a[i])}
             issueAt(i) == Issue("invalid_type", <<field.name, IndexText(i)>>,
                                 "Expected number, received nan")
             RECURSIVE From(_)
             From(i) == IF i > Len(value.a) THEN <<>>
                        ELSE (IF i \in bad THEN <<issueAt(i)>> ELSE <<>>) \o From(i + 1)
         IN  From(1)

Get(params, name) == IF name \in DOMAIN params THEN params[name] ELSE JsUndefined

UnknownSchema == [kind |-> "unknown", fields |-> <<>>]
ObjectSchema(fields) == [kind |-> "object", fields |-> fields]

RECURSIVE FieldIssues(_, _)
FieldIssues(fields, input) ==
    IF fields = <<>> THEN <<>>
    ELSE ValidateField(Head(fields), Get(input, Head(fields).name))
             \o FieldIssues(Tail(fields), input)

\* schema.safeParse(input): {success, data} or {success, error: {issues}}
safeParse(schema, input) ==
    IF schema.kind = "unknown"
    THEN [success |-> TRUE, data |-> input, issues |-> <<>>]
    ELSE LET issues == FieldIssues(schema.fields, input)
             names == {schema.fields[i].name : i \in 1..Len(schema.fields)}
         IN  IF issues = <<>>
             THEN [success |-> TRUE, data |-> [f \in names |-> Get(input, f)], issues |-> <<>>]
             ELSE [success |-> FALSE, data |-> <<>>, issues |-> issues]

\* text.split(sep) for a one-character separator
RECURSIVE Split(_, _)
Split(text, sep) ==
    LET i == IndexOf(text, <<sep>>)
    IN  IF i = 0 THEN <<text>>
        ELSE <<SubSeq(text, 1, i - 1)>> \o Split(SubSeq(text, i + 1, Len(text)), sep)

(***************************************************************************)
(* The endpoint registry: each usage endpoint with the schemas bound to it *)
(* (an absent schema is NoSchema).                                         *)
(***************************************************************************)
NoSchema == [kind |-> "none", fields |-> <<>>]

BalancesEndpoint == "/balances/evm/{address}"
TransfersEndpoint == "/transfers/evm"

usageOperationsToEndpointsMap == {BalancesEndpoint, TransfersEndpoint}

paths(endpoint) ==
    IF endpoint = BalancesEndpoint
    THEN [path |-> ObjectSchema(<<[name |-> "address", type |-> "address", optional |-> FALSE]>>),
          query |-> ObjectSchema(<<[name |-> "contract", type |-> "address", optional |-> TRUE],
                                   [name |-> "block_range", type |-> "block_range", optional |-> TRUE]>>)]
    ELSE [path |-> NoSchema,
          query |-> ObjectSchema(<<[name |-> "contract", type |-> "address", optional |-> TRUE],
                                   [name |-> "block_range", type |-> "block_range", optional |-> TRUE]>>)]

(***************************************************************************)
(* The error formatter. A handler's outcome is a record of what it did:    *)
(* the api_error records logged, the request_error labels incremented, the *)
(* calls in program order, and the response it returned.                   *)
(***************************************************************************)
RECURSIVE Join(_, _)
Join(texts, sep) ==
    IF texts = <<>> THEN ""
    ELSE IF Len(texts) = 1 THEN texts[1]
    ELSE texts[1] \o sep \o Join(Tail(texts), sep)

\* `[${issue.code}] ${issue.path.join('/')}: ${issue.message}`
RenderIssue(issue) ==
    "[" \o issue.code \o "] " \o Join(issue.path, "/") \o ": " \o issue.message

RenderIssues(issues) == Join([i \in 1..Len(issues) |-> RenderIssue(issues[i])], "\n")

\* The errors handed to APIErrorResponse.
StringErr(text) == [kind |-> "string", message |-> text, issues |-> <<>>]
ZodError(issues) == [kind |-> "ZodError", message |-> "", issues |-> issues]
Error(message) == [kind |-> "Error", message |-> message, issues |-> <<>>]
OtherErr == [kind |-> "other", message |-> "", issues |-> <<>>]

ErrorMessage(err) ==
    IF err.kind = "string" THEN err.message
    ELSE IF err.kind = "ZodError" THEN RenderIssues(err.issues)
    ELSE IF err.kind = "Error" THEN err.message
    ELSE "An unexpected error occured"

\* APIErrorResponse that does not count the error.
APIErrorResponseUncounted(ctx, status, code, err) ==
    LET api_error == [status |-> status, code |-> code, message |-> ErrorMessage(err)]
    IN  [logged |-> <<api_error>>,
         counted |-> <<>>,
         calls |-> <<"logger.error", "ctx.json">>,
         response |-> [kind |-> "APIError", status |-> status, body |-> api_error]]

APIErrorResponse(ctx, status, code, err) ==
    LET api_error == [status |-> status, code |-> code, message |-> ErrorMessage(err)]
    IN  [logged |-> <<api_error>>,
         counted |-> <<[pathname |-> ctx.req.path, status |-> status]>>,
         calls |-> <<"logger.error", "request_error.inc", "ctx.json">>,
         response |-> [kind |-> "APIError", status |-> status, body |-> api_error]]

\* A handler that returns a response without an error.
Returns(call_, kind, status, body) ==
    [logged |-> <<>>, counted |-> <<>>, calls |-> <<call_>>,
     response |-> [kind |-> kind, status |-> status, body |-> body]]

\* A handler that returns nothing.
ReturnsNothing ==
    [logged |-> <<>>, counted |-> <<>>, calls |-> <<>>,
     response |-> [kind |-> "none", status |-> 0, body |-> ""]]

NoResponse == [kind |-> "pending", status |-> 0, body |-> ""]

\* counter.inc(label)
Inc(counter, label) ==
    IF label \in DOMAIN counter THEN [counter EXCEPT ![label] = @ + 1]
    ELSE counter @@ (label :> 1)

RECURSIVE IncAll(_, _)
IncAll(counter, labels) ==
    IF labels = <<>> THEN counter
    ELSE IncAll(Inc(counter, Head(labels)), Tail(labels))

EmptyCounter == [label \in {} |-> 0]

NotSettled == [kind |-> "none", data |-> <<>>, message |-> ""]

\* A request arrives: the middleware of app.use counts it.
Arrives(ctxReq) ==
    /\ phase \in {"idle", "done"}
    /\ settled' = NotSettled
    /\ nreq < MaxRequests
    /\ nreq' = nreq + 1
    /\ req' = ctxReq
    /\ requests' = Inc(requests, ctxReq.path)

\* A request arrives and its handler runs to its end with outcome.
Serve(ctxReq, handlerLocals, outcome) ==
    /\ Arrives(ctxReq)
    /\ locals' = handlerLocals
    /\ log' = log \o outcome.logged
    /\ request_error' = IncAll(request_error, outcome.counted)
    /\ trace' = <<"requests.inc">> \o outcome.calls
    /\ response' = outcome.response
    /\ phase' = "done"

\* A request arrives and its handler runs up to an await, having made calls.
Suspend(ctxReq, handlerLocals, calls) ==
    /\ Arrives(ctxReq)
    /\ locals' = handlerLocals
    /\ trace' = <<"requests.inc">> \o calls
    /\ response' = NoResponse
    /\ phase' = "query"
    /\ UNCHANGED <<request_error, log>>

\* The call awaited by req's handler settles and the handler runs to its end.
Resume(settledWith, outcome) ==
    /\ phase = "query"
    /\ settled' = settledWith
    /\ log' = log \o outcome.logged
    /\ request_error' = IncAll(request_error, outcome.counted)
    /\ trace' = trace \o outcome.calls
    /\ response' = outcome.response
    /\ phase' = "done"
    /\ UNCHANGED <<nreq, req, locals, dispatched, requests>>

NoParams == [f \in {} |-> JsUndefined]
Request(route, path, param, query) ==
    [method |-> "GET", route |-> route, path |-> path, param |-> param, query |-> query]

(***************************************************************************)
(* The routes of index.ts.                                                 *)
(***************************************************************************)
StaticPaths == {"/", "/favicon.ico", "/openapi", "/version", "/metrics"}

\* GET /, /favicon.ico, /openapi, /version, /metrics
StaticRoute ==
    \E path \in StaticPaths :
        /\ Serve(Request(path, path, NoParams, NoParams), <<>>,
                 Returns("Response", "ok", 200, path))
        /\ dispatched' = <<>>
        /\ UNCHANGED <<config, call, ret>>

\* What the database answers to a query.
HeadRow == [block_num |-> "1", block_hash |-> "abc"]
QueryOutcomes ==
    {[kind |-> "rows", data |-> <<HeadRow>>, message |-> ""],
     [kind |-> "rows", data |-> <<>>, message |-> ""],
     [kind |-> "throw", data |-> <<>>, message |-> "Connection refused"]}

\* GET /head, up to the await of makeQuery
HeadRequest ==
    /\ Suspend(Request("/head", "/head", NoParams, NoParams), <<>>, <<"makeQuery">>)
    /\ dispatched' = <<>>
    /\ UNCHANGED <<config, call, ret>>

\* The handler of /head once makeQuery has settled with outcome.
HeadHandler(ctx, outcome) ==
    IF outcome.kind = "throw"
    THEN APIErrorResponse(ctx, 500, "bad_database_response", Error(outcome.message))
    ELSE IF outcome.data # <<>>
    THEN Returns("ctx.json", "json", 200, outcome.data[1])
    ELSE ReturnsNothing

HeadQueryDone ==
    \E outcome \in QueryOutcomes :
        /\ req.route = "/head"
        /\ Resume(outcome, HeadHandler([req |-> req], outcome))
        /\ UNCHANGED <<config, call, ret>>

\* What client.ping() resolves to: success, or the error and its message.
PingOutcomes ==
    {[kind |-> "success", data |-> <<>>, message |-> ""],
     [kind |-> "failure", data |-> <<>>, message |-> "Timeout"]}

\* GET /health, up to the await of client.ping
HealthRequest ==
    /\ Suspend(Request("/health", "/health", NoParams, NoParams), <<>>, <<"client.ping">>)
    /\ dispatched' = <<>>
    /\ UNCHANGED <<config, call, ret>>

HealthHandler(ctx, ping) ==
    IF ping.kind # "success"
    THEN APIErrorResponse(ctx, 500, "bad_database_response", StringErr(ping.message))
    ELSE Returns("Response", "ok", 200, "OK")

HealthPingDone ==
    \E ping \in PingOutcomes :
        /\ req.route = "/health"
        /\ Resume(ping, HealthHandler([req |-> req], ping))
        /\ UNCHANGED <<config, call, ret>>

\* app.notFound
UnknownPaths == {"/nope"}

notFound ==
    \E path \in UnknownPaths :
        LET ctxReq == Request("notFound", path, NoParams, NoParams)
        IN  /\ Serve(ctxReq, <<>>,
                     APIErrorResponse([req |-> ctxReq], 404, "route_not_found",
                                      StringErr("Path not found: GET " \o path)))
            /\ dispatched' = <<>>
            /\ UNCHANGED <<config, call, ret>>

(***************************************************************************)
(* The usage endpoints: createUsageEndpoint of index.ts.                   *)
(***************************************************************************)
AddressProps == {"contract", "account", "from", "to"}

\* The preprocessing of the query schema: block ranges to an array.
Preprocess(q) ==
    [f \in DOMAIN q |->
        IF f = "block_range" /\ Truthy(q[f]) THEN JsArray(Split(q[f].s, ",")) ELSE q[f]]

\* The post-processing of the query schema: drop the '0x' from valid addresses.
Transform(q) ==
    [f \in DOMAIN q |->
        IF /\ f \in AddressProps
           /\ Truthy(q[f])
           /\ TypeOf(q[f]) = "string"
           /\ StartsWith(ToLowerCase(q[f].s), Marker)
        THEN JsStr(Slice(q[f].s, 2))
        ELSE q[f]]

\* schema ?? z.unknown()
OrUnknown(schema) == IF schema.kind = "none" THEN UnknownSchema ELSE schema

path_params_schema(endpoint) == OrUnknown(paths(endpoint).path)

\* query_params_schema.safeParse(q): preprocess, the schema, then the transform
\* (which zod runs only on a value the schema accepted).
query_params_safeParse(endpoint, q) ==
    LET parsed == safeParse(OrUnknown(paths(endpoint).query), Preprocess(q))
    IN  IF parsed.success THEN [parsed EXCEPT !.data = Transform(parsed.data)]
        ELSE parsed

\* { ...a, ...b }: a key that b has (with a value) overrides a's.
Spread(a, b) ==
    [f \in DOMAIN a \cup DOMAIN b |->
        IF f \in DOMAIN b /\ b[f].t # "undefined" THEN b[f] ELSE Get(a, f)]

\* The test with '||' for '&&'.
BothSucceededOrEither(path_params, query_params) ==
    path_params.success \/ query_params.success

\* path_params.success && query_params.success
BothSucceeded(path_params, query_params) ==
    path_params.success /\ query_params.success

\* The merge that stops at the first failed source.
MergedIssuesFirstOnly(path_params, query_params) ==
    IF path_params.issues # <<>> THEN path_params.issues ELSE query_params.issues

\* e.addIssues(path_params.error?.issues); e.addIssues(query_params.error?.issues)
MergedIssues(path_params, query_params) ==
    path_params.issues \o query_params.issues

Text(chars) == Join(chars, "")

ValidHex == [i \in 1..AddressHexLength |-> "a"]
WellFormed == Marker \o ValidHex
WellFormedUpper == <<"0", "X">> \o ValidHex
TooShort == Marker \o SubSeq(ValidHex, 1, AddressHexLength - 1)
NotHex == <<"z", "z">>

\* The addresses tried as a path parameter and as the contract of the query.
PathAddressSamples == {WellFormed, TooShort}
ContractSamples == {WellFormed, WellFormedUpper, NotHex}

BlockRangeSamples ==
    {JsUndefined, JsStr(<<"1", ",", "9">>), JsStr(<<"1", ",", "a">>)}

QueryInputs ==
    {[contract |-> c, block_range |-> b] :
        c \in {JsUndefined} \cup {JsStr(a) : a \in ContractSamples},
        b \in BlockRangeSamples}

\* The requests that reach a usage endpoint.
UsageRequests ==
    {Request(BalancesEndpoint, "/balances/evm/" \o Text(a), [address |-> JsStr(a)], q) :
        a \in PathAddressSamples, q \in QueryInputs}
    \cup {Request(TransfersEndpoint, TransfersEndpoint, NoParams, q) : q \in QueryInputs}

\* The handler of a usage endpoint up to its return: the validation error, or
\* the call of makeUsageQuery.
UsageHandler(ctxReq) ==
    LET endpoint == ctxReq.route
        path_params == safeParse(path_params_schema(endpoint), ctxReq.param)
        query_params == query_params_safeParse(endpoint, ctxReq.query)
        e == MergedIssues(path_params, query_params)
    IN  IF BothSucceeded(path_params, query_params)
        THEN [locals |-> [path_params |-> path_params, query_params |-> query_params,
                          e |-> <<>>],
              dispatched |-> <<[endpoint |-> endpoint,
                                params |-> Spread(path_params.data, query_params.data)]>>,
              outcome |-> ReturnsNothing]
        ELSE [locals |-> [path_params |-> path_params, query_params |-> query_params,
                          e |-> e],
              dispatched |-> <<>>,
              outcome |-> APIErrorResponse([req |-> ctxReq], 400, "bad_query_input",
                                           ZodError(e))]

\* UsageHandler of every request, evaluated once.
UsageHandlerOf == [ctxReq \in UsageRequests |-> UsageHandler(ctxReq)]

UsageEndpoint ==
    \E ctxReq \in UsageRequests :
        LET handled == UsageHandlerOf[ctxReq]
        IN  /\ IF handled.dispatched # <<>>
               THEN Suspend(ctxReq, handled.locals, <<"makeUsageQuery">>)
               ELSE Serve(ctxReq, handled.locals, handled.outcome)
            /\ dispatched' = handled.dispatched
            /\ UNCHANGED <<config, call, ret>>

\* The query dispatcher once the database has answered: the rows, or a
\* bad_database_response error.
makeUsageQuery(ctx, outcome) ==
    IF outcome.kind = "throw"
    THEN APIErrorResponse(ctx, 500, "bad_database_response", Error(outcome.message))
    ELSE Returns("ctx.json", "json", 200, outcome.data)

UsageQueryDone ==
    \E outcome \in QueryOutcomes :
        /\ dispatched # <<>>
        /\ Resume(outcome, makeUsageQuery([req |-> req], outcome))
        /\ UNCHANGED <<config, call, ret>>

(***************************************************************************)
(* The transfers route: a single fixed query by wallet address.            *)
(***************************************************************************)
MODULE_HASH == "5b21ee0834a2c082a0befea1b71f771dc87d0f5e"

ChainIdInputs == {JsUndefined, JsStr(<<"a">>)}

\* a ?? b
Nullish(a, b) == IF a.t \in {"undefined", "null"} THEN b ELSE a

\* The requests that reach the transfers route.
TransfersRequests ==
    {Request("/:address", "/" \o Text(a), [address |-> JsStr(a)], [chain_id |-> id]) :
        a \in PathAddressSamples, id \in ChainIdInputs}

TransfersRoute ==
    \E ctxReq \in TransfersRequests :
        LET chain_id == Nullish(ctxReq.query.chain_id,
                                JsStr(<<"m", "a", "i", "n", "n", "e", "t">>))
            address == ctxReq.param.address
            TABLE == Nullish(config.database,
                             JsStr(chain_id.s \o <<":", MODULE_HASH>>))
        IN  /\ Suspend(ctxReq, [chain_id |-> chain_id, address |-> address, TABLE |-> TABLE],
                       <<"makeUsageQuery">>)
            /\ dispatched' = <<[endpoint |-> ctxReq.route, params |-> [address |-> address]]>>
            /\ UNCHANGED <<config, call, ret>>

(***************************************************************************)
(* The specifications.                                                     *)
(***************************************************************************)
Idle ==
    /\ phase = "idle"
    /\ nreq = 0
    /\ req = Request("none", "", NoParams, NoParams)
    /\ locals = <<>>
    /\ dispatched = <<>>
    /\ settled = NotSettled
    /\ trace = <<>>
    /\ response = NoResponse
    /\ requests = EmptyCounter
    /\ request_error = EmptyCounter
    /\ log = <<>>

\* The gateway serving requests.
Init ==
    /\ config = [maxLimit |-> MaxConfigLimit, database |-> JsUndefined]
    /\ call = NoCall
    /\ ret = Pending
    /\ Idle

Next ==
    \/ StaticRoute
    \/ HeadRequest
    \/ HeadQueryDone
    \/ HealthRequest
    \/ HealthPingDone
    \/ TransfersRoute
    \/ UsageEndpoint
    \/ UsageQueryDone
    \/ notFound

Spec == Init /\ [][Next]_vars

\* The normalizers, each called once on an input drawn from the bounded sets.
NormInit ==
    /\ config \in {[maxLimit |-> m, database |-> JsUndefined] : m \in 1..MaxConfigLimit}
    /\ call \in Calls
    /\ ret = Pending
    /\ Idle

NormNext ==
    \/ CallFormatAddress
    \/ CallParseBlockId
    \/ CallParseLimit
    \/ CallParseTimestamp

NormSpec == NormInit /\ [][NormNext]_vars

(***************************************************************************)
(* Properties of the gateway, the behaviours of Spec.                      *)
(***************************************************************************)
IsUsageRequest == req.route \in usageOperationsToEndpointsMap

PathResult == safeParse(path_params_schema(req.route), req.param)
QueryResult == query_params_safeParse(req.route, req.query)

Count(seq, x) == Cardinality({i \in 1..Len(seq) : seq[i] = x})
Position(seq, x) == Min({i \in 1..Len(seq) : seq[i] = x})

IsValidationError(resp) ==
    /\ resp.kind = "APIError"
    /\ resp.status = 400
    /\ resp.body.code = "bad_query_input"

\* C1: for a request to a usage endpoint, makeUsageQuery is called only if the
\* path validation and the query validation both succeeded; if either failed,
\* no query is dispatched and the request ends in the validation-error response.
C1_DispatchOnlyIfBothValid ==
    IsUsageRequest =>
        /\ (dispatched # <<>> \/ Count(trace, "makeUsageQuery") > 0)
               => (PathResult.success /\ QueryResult.success)
        /\ ~(PathResult.success /\ QueryResult.success)
               => /\ dispatched = <<>>
                  /\ Count(trace, "makeUsageQuery") = 0
                  /\ phase = "done"
                  /\ IsValidationError(response)

\* A usage request whose path parameters are valid and whose query is not has
\* been answered.
C1_Witness ==
    /\ IsUsageRequest
    /\ phase = "done"
    /\ PathResult.success
    /\ ~QueryResult.success
    /\ IsValidationError(response)

SchemaFieldNames(schema) == {schema.fields[i].name : i \in 1..Len(schema.fields)}
PathFieldNames == SchemaFieldNames(path_params_schema(req.route))
QueryFieldNames == SchemaFieldNames(OrUnknown(paths(req.route).query))

\* C2: the path and the query parameters of a usage request are validated
\* independently and unconditionally; when either or both fail, one Validation
\* Error is built whose issues are all the path issues followed by all the query
\* issues, and it is returned as a single API Error with status 400 and code
\* bad_query_input; when both sources are malformed, the error holds at least
\* one issue of each source.
C2_MergedValidationError ==
    (IsUsageRequest /\ ~(PathResult.success /\ QueryResult.success)) =>
        /\ locals.path_params = PathResult
        /\ locals.query_params = QueryResult
        /\ locals.e = PathResult.issues \o QueryResult.issues
        /\ IsValidationError(response)
        /\ response.body.message = RenderIssues(PathResult.issues \o QueryResult.issues)
        /\ Count(trace, "ctx.json") = 1
        /\ Count(trace, "logger.error") = 1
        /\ (~PathResult.success /\ ~QueryResult.success)
               => /\ \E i \in 1..Len(locals.e) : locals.e[i].path[1] \in PathFieldNames
                  /\ \E i \in 1..Len(locals.e) : locals.e[i].path[1] \in QueryFieldNames

\* A usage request with a malformed path parameter and a malformed query has
\* been answered.
C2_Witness ==
    /\ IsUsageRequest
    /\ phase = "done"
    /\ ~PathResult.success
    /\ ~QueryResult.success
    /\ Len(locals.e) >= 2

RECURSIVE Total(_)
Total(counter) ==
    IF DOMAIN counter = {} THEN 0
    ELSE LET label == CHOOSE l \in DOMAIN counter : TRUE
         IN  counter[label] + Total([l \in DOMAIN counter \ {label} |-> counter[l]])

CountOf(counter, label) == IF label \in DOMAIN counter THEN counter[label] ELSE 0

\* The request being handled has failed: its validation, the database, or no
\* route matching it.
Failed ==
    \/ req.route = "notFound"
    \/ IsUsageRequest /\ ~(PathResult.success /\ QueryResult.success)
    \/ settled.kind \in {"throw", "failure"}

ErrorLabel(ctxReq, resp) == [pathname |-> ctxReq.path, status |-> resp.status]

\* The state part of C7: a failed request that is done has been answered with
\* an API Error; an API Error was logged once and counted once, under the
\* request's path and its status, before the response was returned; nothing is
\* logged or counted for a request that has not ended in an API Error.
C7_State ==
    /\ (phase = "done" /\ Failed) => response.kind = "APIError"
    /\ response.kind = "APIError" =>
           /\ phase = "done"
           /\ DOMAIN response.body = {"status", "code", "message"}
           /\ response.body.status = response.status
           /\ Count(trace, "logger.error") = 1
           /\ Count(trace, "request_error.inc") = 1
           /\ Count(trace, "ctx.json") = 1
           /\ Position(trace, "logger.error") < Position(trace, "ctx.json")
           /\ Position(trace, "request_error.inc") < Position(trace, "ctx.json")
           /\ log # <<>> /\ log[Len(log)] = response.body
           /\ CountOf(request_error, ErrorLabel(req, response)) >= 1
    /\ response.kind # "APIError" =>
           /\ Count(trace, "logger.error") = 0
           /\ Count(trace, "request_error.inc") = 0
    /\ Len(log) = Total(request_error)
    /\ Len(log) <= nreq

\* The step part of C7: the step that ends a request in an API Error appends
\* that error to the log and adds one to the counter of its path and status,
\* and leaves every other counter alone; any other step leaves both alone.
C7_Step ==
    IF phase # "done" \/ nreq' # nreq
    THEN IF phase' = "done" /\ response'.kind = "APIError"
         THEN /\ log' = Append(log, response'.body)
              /\ request_error' = Inc(request_error, ErrorLabel(req', response'))
         ELSE /\ log' = log
              /\ request_error' = request_error
    ELSE /\ log' = log
         /\ request_error' = request_error

\* C7: every failed request (validation failure, database failure, unmatched
\* route) produces exactly one API Error {status, code, message}, which is
\* logged exactly once and counted exactly once under the request's path and
\* status, both before the response is returned.
C7_LoggedAndCountedOnce == []C7_State /\ [][C7_Step]_vars

\* Two requests have failed, the second one on an unmatched route after the
\* first one was logged and counted.
C7_Witness ==
    /\ nreq = 2
    /\ phase = "done"
    /\ req.route = "notFound"
    /\ response.kind = "APIError"
    /\ Len(log) = 2

AddressFields == {"address"} \cup AddressProps

HasMarker(value) == value.t = "string" /\ StartsWith(ToLowerCase(value.s), Marker)

\* C8: in the parameter set handed to makeUsageQuery no address-shaped field
\* retains the leading 0x marker, whether it arrived as a path parameter or as a
\* query parameter, and every such field was found well formed before.
C8_NoMarkerDispatched ==
    \A i \in 1..Len(dispatched) :
        \A f \in DOMAIN dispatched[i].params \cap AddressFields :
            LET given == IF f \in DOMAIN req.param THEN req.param[f] ELSE req.query[f]
            IN  given.t # "undefined" =>
                    /\ ~HasMarker(dispatched[i].params[f])
                    /\ IsAddress(given.s)

\* C10: every GET /head request whose query has completed ends in a response of
\* the handler: the head row with status 200, or a bad_database_response API
\* Error with status 500; also when the query returned no row.
C10_HeadAlwaysResponds ==
    (req.route = "/head" /\ phase = "done") =>
        \/ response.kind = "json" /\ response.status = 200
        \/ /\ response.kind = "APIError"
           /\ response.status = 500
           /\ response.body.code = "bad_database_response"

(***************************************************************************)
(* Properties of the normalizers, the behaviours of NormSpec.              *)
(***************************************************************************)
Returned(fn) == call.fn = fn /\ ret # Pending

\* C3: whatever the input and the default, the limit returned by parseLimit,
\* when it is a number, lies in [1, maxLimit]; in particular a raw limit of
\* zero or below is never returned as it is.
C3_LimitInRange ==
    (Returned("parseLimit") /\ ret.t = "number") =>
        (1 <= ret.n /\ ret.n <= config.maxLimit)

\* The value a limit stands for: the number itself, or parseInt of the text.
LimitValue(limit) == IF limit.t = "string" THEN parseInt(limit.s) ELSE limit

MinOf(a, b) == IF a <= b THEN a ELSE b

\* C4: parseLimit never fails and always returns an integer <= maxLimit, for
\* every raw input (non-numeric text included) and every default; with raw
\* absent or falsy the result is 1 when there is no default and
\* min(default, maxLimit) when there is one; a raw limit that is present
\* overrides the default.
C4_LimitIsInteger ==
    Returned("parseLimit") =>
        LET limit == call.args[1]
            defaultLimit == call.args[2]
        IN  /\ ret.t = "number"
            /\ ret.n <= config.maxLimit
            /\ (~Truthy(limit) /\ defaultLimit.t = "undefined") => ret.n = 1
            /\ (~Truthy(limit) /\ Truthy(defaultLimit))
                   => ret.n = MinOf(defaultLimit.n, config.maxLimit)
            /\ (Truthy(limit) /\ LimitValue(limit).t = "number")
                   => ret.n = MinOf(LimitValue(limit).n, config.maxLimit)

\* The number a timestamp input stands for, when it is a number or a text of
\* digits only.
IsNumericTimestamp(x) == x.t = "numeral" \/ (x.t = "string" /\ IsDigits(x.s))
TimestampNumber(x) == IF x.t = "string" THEN parseIntDigits(x.s) ELSE x

\* The count of decimal digits of a number.
DecimalDigits(x) == Len(x.s)

\* C5: for a number, or a text of digits only taken as that number,
\* parseTimestamp returns the number unchanged when it has exactly 10 decimal
\* digits, floor(number / 1000) when it has exactly 13, and fails with
\* "Invalid timestamp" for every other count of digits, the sign not counting;
\* an absent input gives an absent output.
C5_TimestampByDigits ==
    Returned("parseTimestamp") =>
        LET timestamp == call.args[1]
            number == TimestampNumber(timestamp)
        IN  /\ timestamp.t \in {"undefined", "null"} => ret = JsUndefined
            /\ IsNumericTimestamp(timestamp) =>
                   IF DecimalDigits(number) = 10 THEN ret = number
                   ELSE IF DecimalDigits(number) = 13 THEN ret = FloorDiv1000(number)
                   ELSE ret = JsThrow("Invalid timestamp")

\* C6 as stated: formatAddress applied twice gives what it gives applied once,
\* for every text; a text without the leading marker is returned unchanged; and
\* for a text that starts with the marker, the marker put back in front of the
\* result gives the text.
C6_IdempotentOnEveryText ==
    (Returned("formatAddress") /\ call.args[1].t = "string") =>
        LET s == call.args[1].s
        IN  /\ formatAddress(ret) = ret
            /\ ~StartsWith(s, Marker) => ret = JsStr(s)
            /\ StartsWith(s, Marker) => (ret.t = "string" /\ Marker \o ret.s = s)

\* C6 as amended: formatAddress applied twice gives what it gives applied once
\* for every text whose result is not empty and does not itself begin with the
\* marker (every well-formed address is one); a non-empty text without the
\* leading marker is returned unchanged; and for a text that starts with the
\* marker, the marker put back in front of the result gives the text.
C6_IdempotentOnStripped ==
    (Returned("formatAddress") /\ call.args[1].t = "string") =>
        LET s == call.args[1].s
        IN  /\ (ret.t = "string" /\ ret.s # <<>> /\ ~StartsWith(ret.s, Marker))
                   => formatAddress(ret) = ret
            /\ (s # <<>> /\ ~StartsWith(s, Marker)) => ret = JsStr(s)
            /\ StartsWith(s, Marker) => (ret.t = "string" /\ Marker \o ret.s = s)

\* formatAddress has stripped the marker of a text and left a text that holds
\* a marker further on.
C6_Witness ==
    /\ Returned("formatAddress")
    /\ call.args[1] = JsStr(<<"0", "x", "a", "0">>)
    /\ ret = JsStr(<<"a", "0">>)

\* C9: parseBlockId returns what formatAddress returns, for every text and for
\* an absent input: only a leading marker is removed and a marker further on in
\* the text is left in place.
C9_BlockIdLikeAddress ==
    Returned("parseBlockId") => ret = formatAddress(call.args[1])

====
